---- MODULE Spec2Model ----
(***************************************************************************)
(* Model of the Ares controller (gupb/controller/ares/ares_controller.py): *)
(* the knowledge map (Map), its breadth-first path search and action       *)
(* translation, and the per-turn decision policy (KnowledgeBase.choice).   *)
(*                                                                         *)
(* Coordinates are pairs <<x, y>>.  Python's None is <<>> for coordinates  *)
(* and for the optional radius (a radius r is <<r>>), and "None" for the   *)
(* facing.  An exception that leaves decide is the action "EXC".           *)
(***************************************************************************)
EXTENDS Integers, Sequences, FiniteSets, TLC

\* Map.arena: the arena the map was loaded from, its size and terrain.
VARIABLE arena

\* Map.MAPSIZE: the size of the arena the map is loaded from.
MAPSIZE == arena.size

\* ---------------------------------------------------------------- bounds
\* Number of decide calls in one run of the agent's life.
MaxTurns == 6
\* Number of reset calls (matches) in one run.
MaxResets == 2
\* Longest path handed to getActions in the translation specification.
MaxPath == 2
\* Largest radius handed to findTarget in the path-search specification.
MaxRadius == 2
\* Largest number of cells that are not plain land in a map of the
\* path-search specification.
MaxSpecial == 3

\* ------------------------------------------------------------ vocabulary
TURN_LEFT == "TURN_LEFT"
TURN_RIGHT == "TURN_RIGHT"
STEP_FORWARD == "STEP_FORWARD"
ATTACK == "ATTACK"
DO_NOTHING == "DO_NOTHING"

\* characters.Action
Action == {TURN_LEFT, TURN_RIGHT, STEP_FORWARD, ATTACK, DO_NOTHING}

UP == "UP"
DOWN == "DOWN"
LEFT == "LEFT"
RIGHT == "RIGHT"

\* characters.Facing
Facing == {UP, DOWN, LEFT, RIGHT}

\* Facing.value: the unit vector of a facing (y grows downwards).
FacingValue(f) ==
    CASE f = UP -> <<0, -1>>
      [] f = DOWN -> <<0, 1>>
      [] f = LEFT -> <<-1, 0>>
      [] f = RIGHT -> <<1, 0>>

\* Coords.__add__
CoordsAdd(a, b) == <<a[1] + b[1], a[2] + b[2]>>

\* The cells of an arena of the given size.
ArenaCells(size) == (0 .. (size[1] - 1)) \X (0 .. (size[2] - 1))

\* The cells of the grid: the indices of Map.map.
Cells == ArenaCells(MAPSIZE)

\* A cell the arena does not describe: Map.map holds None there.
NoneTile ==
    [kind |-> "None", type |-> "none", passable |-> FALSE,
     character |-> FALSE, consumable |-> "none", mist |-> FALSE]

\* tiles.Tile as loaded with the arena: static passability, no contents.
StaticTile(p) ==
    [kind |-> "Tile", type |-> "tile", passable |-> p,
     character |-> FALSE, consumable |-> "none", mist |-> FALSE]

\* tiles.TileDescription as received in ChampionKnowledge.visible_tiles.
TileDescription(t, ch, co, m) ==
    [kind |-> "TileDescription", type |-> t, passable |-> FALSE,
     character |-> ch, consumable |-> co, mist |-> m]

\* ------------------------------------------------------- tile predicates
tileIsMist(tile) == tile.mist

tilePassable(tile) ==
    IF tile.kind = "TileDescription"
    THEN tile.type \in {"land", "menhir"}
    ELSE IF tile.kind = "Tile" THEN tile.passable ELSE FALSE

\* ------------------------------------------------------------------- Map
taxiDistance(root, target) ==
    (IF root[1] >= target[1] THEN root[1] - target[1] ELSE target[1] - root[1])
    + (IF root[2] >= target[2] THEN root[2] - target[2] ELSE target[2] - root[2])

isInMap(coord) ==
    coord[1] < MAPSIZE[1] /\ coord[1] >= 0 /\ coord[2] < MAPSIZE[2] /\ coord[2] >= 0

\* Python list indexing self.map[x][y]: a negative index counts from the
\* end, an index outside -n .. n-1 raises IndexError.
PyIndex(i, n) == IF i >= n \/ i < -n THEN -1 ELSE IF i < 0 THEN i + n ELSE i

\* self.map[coord.x][coord.y] raises no IndexError.
MapIndexOk(coord) ==
    PyIndex(coord[1], MAPSIZE[1]) >= 0 /\ PyIndex(coord[2], MAPSIZE[2]) >= 0

\* self.map[coord.x][coord.y]
MapAt(m, coord) ==
    m[<<PyIndex(coord[1], MAPSIZE[1]), PyIndex(coord[2], MAPSIZE[2])>>]

getNeighboursAll(root) ==
    << <<root[1] + 1, root[2]>>, <<root[1] - 1, root[2]>>,
       <<root[1], root[2] + 1>>, <<root[1], root[2] - 1>> >>

NeighbourOk(m, new, mode) ==
    /\ isInMap(new)
    /\ \/ (tilePassable(m[new]) /\ ~tileIsMist(m[new]))
       \/ mode # ""

getNeighbours(m, root, mode) ==
    SelectSeq(getNeighboursAll(root), LAMBDA new : NeighbourOk(m, new, mode))

\* getTargetFace with the vertical facings the wrong way round.
getTargetFace_Flipped(X, Y) ==
    LET x == X[1] - Y[1]
        y == X[2] - Y[2]
    IN  IF x = 0
        THEN (IF y > 0 THEN DOWN ELSE UP)
        ELSE IF y # 0 THEN "EXC"
             ELSE (IF x > 0 THEN LEFT ELSE RIGHT)

getTargetFace(X, Y) ==
    LET x == X[1] - Y[1]
        y == X[2] - Y[2]
    IN  IF x = 0
        THEN (IF y > 0 THEN UP ELSE DOWN)
        ELSE IF y # 0 THEN "EXC"
             ELSE (IF x > 0 THEN LEFT ELSE RIGHT)

\* The table with the first pair the wrong way round.
right_possibilities_Swapped ==
    { <<UP, LEFT>>, <<RIGHT, DOWN>>, <<DOWN, LEFT>>, <<LEFT, UP>> }

right_possibilities ==
    { <<UP, RIGHT>>, <<RIGHT, DOWN>>, <<DOWN, LEFT>>, <<LEFT, UP>> }

SameAxis(a, b) ==
    \/ (a \in {UP, DOWN} /\ b \in {UP, DOWN})
    \/ (a \in {RIGHT, LEFT} /\ b \in {RIGHT, LEFT})

\* dirChange returns [exc, res, face]; exc when getTargetFace raises.
dirChange(current, face, step) ==
    LET target_face == getTargetFace(current, step)
    IN  IF target_face = "EXC" THEN [exc |-> TRUE, res |-> <<>>, face |-> face]
        ELSE IF target_face = face THEN [exc |-> FALSE, res |-> <<>>, face |-> face]
        ELSE IF SameAxis(target_face, face)
             THEN [exc |-> FALSE, res |-> <<TURN_RIGHT, TURN_RIGHT>>, face |-> target_face]
        ELSE IF <<face, target_face>> \in right_possibilities
             THEN [exc |-> FALSE, res |-> <<TURN_RIGHT>>, face |-> target_face]
        ELSE [exc |-> FALSE, res |-> <<TURN_LEFT>>, face |-> target_face]

\* getActions that turns every step from the initial facing: the facing
\* reached by a step is not carried over to the next.
RECURSIVE getActionsLoop_StaleFace(_, _, _, _)
getActionsLoop_StaleFace(actions, current_face, current_pos, path) ==
    IF path = <<>> THEN [exc |-> FALSE, actions |-> actions]
    ELSE LET d == dirChange(current_pos, current_face, Head(path))
         IN  IF d.exc THEN [exc |-> TRUE, actions |-> <<>>]
             ELSE getActionsLoop_StaleFace(actions \o d.res \o <<STEP_FORWARD>>,
                                           current_face, Head(path), Tail(path))

RECURSIVE getActionsLoop(_, _, _, _)
getActionsLoop(actions, current_face, current_pos, path) ==
    IF path = <<>> THEN [exc |-> FALSE, actions |-> actions]
    ELSE LET d == dirChange(current_pos, current_face, Head(path))
         IN  IF d.exc THEN [exc |-> TRUE, actions |-> <<>>]
             ELSE getActionsLoop(actions \o d.res \o <<STEP_FORWARD>>,
                                 d.face, Head(path), Tail(path))

\* getActions returns [exc, actions].
getActions(facing, position, path) ==
    getActionsLoop(<<>>, facing, position, path)

\* Goals handed to findTarget by the policy: an exact coordinate, or the
\* consumable description of a potion.
CoordsTarget(c) == [kind |-> "Coords", coord |-> c, name |-> "none"]

ConsumableTarget(n) == [kind |-> "ConsumableDescription", coord |-> <<>>, name |-> n]

\* targetFound: TRUE, FALSE, or "EXC" when an attribute of None is read.
targetFound(m, v, target) ==
    IF target.kind = "Coords" /\ v = target.coord THEN "TRUE"
    ELSE IF target.kind = "ConsumableDescription"
         THEN IF m[v].kind = "None" THEN "EXC"
              ELSE IF m[v].consumable # "none" /\ m[v].consumable = target.name
                   THEN "TRUE" ELSE "FALSE"
    ELSE "FALSE"

\* Visited holds <<0>> for an unvisited known cell, <<>> (None) for an
\* unknown cell, and the parent coordinate for a visited cell.
VisitedInit(m, root) ==
    [c \in Cells |->
        IF c = root THEN root
        ELSE IF m[c].kind # "None" THEN <<0>> ELSE <<>>]

\* The parent chain [v, ..., root] of lines 207-211.
RECURSIVE PathBack(_, _)
PathBack(Visited, v) ==
    IF Visited[v] = v THEN <<v>>
    ELSE <<v>> \o PathBack(Visited, Visited[v])

Reverse(s) == [i \in 1 .. Len(s) |-> s[Len(s) + 1 - i]]

\* path.pop(); path.reverse()
PathFromRoot(Visited, v) ==
    LET back == PathBack(Visited, v)
    IN  Reverse(SubSeq(back, 1, Len(back) - 1))

\* The loop with the frontier kept as a stack: a new cell goes to the
\* front of Q.
RECURSIVE Expand_Stack(_, _, _, _)
Expand_Stack(Visited, Q, v, nb) ==
    IF nb = <<>> THEN [Visited |-> Visited, Q |-> Q]
    ELSE LET p == Head(nb)
         IN  IF Visited[p] = <<0>>
             THEN Expand_Stack([Visited EXCEPT ![p] = v], <<p>> \o Q, v, Tail(nb))
             ELSE Expand_Stack(Visited, Q, v, Tail(nb))

\* The loop that also puts the parent of v back in the queue.
RECURSIVE Expand_Requeue(_, _, _, _)
Expand_Requeue(Visited, Q, v, nb) ==
    IF nb = <<>> THEN [Visited |-> Visited, Q |-> Q]
    ELSE LET p == Head(nb)
         IN  IF Visited[p] = <<0>>
             THEN Expand_Requeue([Visited EXCEPT ![p] = v], Append(Q, p), v, Tail(nb))
             ELSE IF p = Visited[v]
             THEN Expand_Requeue(Visited, Append(Q, p), v, Tail(nb))
             ELSE Expand_Requeue(Visited, Q, v, Tail(nb))

\* The for loop of lines 215-219 over the neighbours nb of v.
RECURSIVE Expand(_, _, _, _)
Expand(Visited, Q, v, nb) ==
    IF nb = <<>> THEN [Visited |-> Visited, Q |-> Q]
    ELSE LET p == Head(nb)
         IN  IF Visited[p] = <<0>>
             THEN Expand([Visited EXCEPT ![p] = v], Append(Q, p), v, Tail(nb))
             ELSE Expand(Visited, Q, v, Tail(nb))

\* The loop condition without the radius.
RadiusOpen_NoCutoff(radius, r) == TRUE

\* The loop condition of line 202: radius is None or r <= radius.
RadiusOpen(radius, r) == radius = <<>> \/ r <= radius[1]

\* The while loop of lines 202-219 and the return of line 220.  The result
\* is [exc, actions, found, popped]: popped records the cells taken from
\* the queue, in order (the cells the search examines).
RECURSIVE shortestPathLoop(_, _, _, _, _, _, _, _, _, _)
shortestPathLoop(m, position, facing, root, target, radius, mode, Visited, Q, popped) ==
    IF Len(Q) > 0 /\ RadiusOpen(radius, Len(popped))
    THEN LET v == Head(Q)
             hit == targetFound(m, v, target)
             seen == Append(popped, v)
         IN  IF hit = "EXC"
             THEN [exc |-> TRUE, actions |-> <<>>, found |-> <<>>, popped |-> seen]
             ELSE IF hit = "TRUE"
             THEN LET a == getActions(facing, root, PathFromRoot(Visited, v))
                  IN  [exc |-> a.exc, actions |-> a.actions,
                       found |-> v, popped |-> seen]
             ELSE LET e == Expand(Visited, Tail(Q), v, getNeighbours(m, v, mode))
                  IN  shortestPathLoop(m, position, facing, root, target, radius,
                                       mode, e.Visited, e.Q, seen)
    ELSE [exc |-> FALSE, actions |-> <<>>, found |-> position, popped |-> popped]

\* Map.shortestPath on the map m of an agent at position with facing.
shortestPath(m, position, facing, root, target, radius, mode) ==
    shortestPathLoop(m, position, facing, root, target, radius, mode,
                     VisitedInit(m, root), <<root>>, <<>>)

findTarget(m, position, facing, target, radius) ==
    shortestPath(m, position, facing, position, target, radius, "")

\* --------------------------------------------------------- KnowledgeBase
\* KnowledgeBase.tileNeighbourhood
tileNeighbourhood == 16

\* Number of forced-scan turns (the literal 3 of choice).
ScanRounds == 3

\* self.mapBase.description.facing.value + self.mapBase.position
FrontCoords(pos, f) == CoordsAdd(FacingValue(f), pos)

\* checkPossibleAction that does not look at the tile ahead.
checkPossibleAction_Blind(inFrontTile) ==
    {TURN_LEFT, TURN_RIGHT, STEP_FORWARD}

\* checkPossibleAction: the set of actions random.choice can return.
checkPossibleAction(inFrontTile) ==
    IF ~tilePassable(inFrontTile) THEN {TURN_RIGHT}
    ELSE {TURN_LEFT, TURN_RIGHT, STEP_FORWARD}

stepPossible(m, pos, f, step) ==
    IF step = STEP_FORWARD
    THEN LET frontTile == MapAt(m, FrontCoords(pos, f))
         IN  ~(~tilePassable(frontTile) \/ tileIsMist(frontTile))
    ELSE TRUE

\* followTarget: the set of results [action, actionsToMake, actionsTarget].
followTarget(m, pos, f, atm, tgt) ==
    LET hasStep == Len(atm) > 0
        popped == IF hasStep THEN Tail(atm) ELSE atm
        keep == hasStep /\ stepPossible(m, pos, f, Head(atm))
    IN  IF keep
        THEN {[action |-> Head(atm), actionsToMake |-> popped, actionsTarget |-> tgt]}
        ELSE {[action |-> a, actionsToMake |-> <<>>, actionsTarget |-> <<>>] :
                 a \in checkPossibleAction(MapAt(m, FrontCoords(pos, f)))}

\* A result of choice: the action returned (or "EXC" when an exception
\* leaves decide) and the fields of the KnowledgeBase after the call.
Outcome(a, rc, atm, tgt) ==
    [action |-> a, round_counter |-> rc, actionsToMake |-> atm, actionsTarget |-> tgt]

\* The except branch of choice (lines 308-309), with the fields as they
\* were when the exception was raised.
Fallback(inFrontTile, rc, atm, tgt) ==
    {Outcome(a, rc, atm, tgt) : a \in checkPossibleAction(inFrontTile)}

\* The landmark branch adopting also a path of exactly tileNeighbourhood
\* actions.
LandmarkBranch_AtLeast(m, pos, f, men, inFrontTile, rc, atm, tgt) ==
    LET res == findTarget(m, pos, f, CoordsTarget(men), <<>>)
    IN  IF res.exc THEN Fallback(inFrontTile, rc, atm, tgt)
        ELSE IF Len(res.actions) >= tileNeighbourhood
        THEN {Outcome(r.action, rc, r.actionsToMake, r.actionsTarget) :
                 r \in followTarget(m, pos, f, res.actions, res.found)}
        ELSE {Outcome(a, rc, <<>>, <<>>) : a \in checkPossibleAction(inFrontTile)}

\* The landmark branch of choice (lines 299-305).
LandmarkBranch(m, pos, f, men, inFrontTile, rc, atm, tgt) ==
    LET res == findTarget(m, pos, f, CoordsTarget(men), <<>>)
    IN  IF res.exc THEN Fallback(inFrontTile, rc, atm, tgt)
        ELSE IF Len(res.actions) > tileNeighbourhood
        THEN {Outcome(r.action, rc, r.actionsToMake, r.actionsTarget) :
                 r \in followTarget(m, pos, f, res.actions, res.found)}
        ELSE {Outcome(a, rc, <<>>, <<>>) : a \in checkPossibleAction(inFrontTile)}

\* The branches of choice below the forced scan (lines 294-307): the
\* queued plan, the potion, the landmark, the local fallback.
PlanBranches(m, pos, f, men, inFrontTile, potion, rc, atm, tgt) ==
    IF Len(atm) > 0
    THEN {Outcome(r.action, rc, r.actionsToMake, r.actionsTarget) :
             r \in followTarget(m, pos, f, atm, tgt)}
    ELSE IF potion.actions # <<>> /\ Len(potion.found) < tileNeighbourhood
    THEN {Outcome(r.action, rc, r.actionsToMake, r.actionsTarget) :
             r \in followTarget(m, pos, f, potion.actions, potion.found)}
    ELSE IF men # <<>>
    THEN LandmarkBranch(m, pos, f, men, inFrontTile, rc, atm, tgt)
    ELSE {Outcome(a, rc, atm, tgt) : a \in checkPossibleAction(inFrontTile)}

\* The body with the forced scan tested before the occupant ahead.
ChoiceBody_ScanFirst(m, pos, f, men, inFrontTile, rc, atm, tgt) ==
    LET potion == findTarget(m, pos, f, ConsumableTarget("potion"),
                             <<tileNeighbourhood>>)
    IN  IF potion.exc \/ inFrontTile.kind = "None"
        THEN Fallback(inFrontTile, rc, atm, tgt)
        ELSE IF rc < ScanRounds
        THEN {Outcome(TURN_RIGHT, rc + 1, atm, tgt)}
        ELSE IF inFrontTile.character
        THEN {Outcome(ATTACK, rc, atm, tgt)}
        ELSE PlanBranches(m, pos, f, men, inFrontTile, potion, rc, atm, tgt)

\* The body with an attack that drops the queued plan.
ChoiceBody_AttackDropsPlan(m, pos, f, men, inFrontTile, rc, atm, tgt) ==
    LET potion == findTarget(m, pos, f, ConsumableTarget("potion"),
                             <<tileNeighbourhood>>)
    IN  IF potion.exc \/ inFrontTile.kind = "None"
        THEN Fallback(inFrontTile, rc, atm, tgt)
        ELSE IF inFrontTile.character
        THEN {Outcome(ATTACK, rc, <<>>, <<>>)}
        ELSE IF rc < ScanRounds
        THEN {Outcome(TURN_RIGHT, rc + 1, atm, tgt)}
        ELSE PlanBranches(m, pos, f, men, inFrontTile, potion, rc, atm, tgt)

\* The body of the try of choice (lines 284-307).  Reading the character
\* of a None tile raises, like a failing potion search, into the except.
ChoiceBody(m, pos, f, men, inFrontTile, rc, atm, tgt) ==
    LET potion == findTarget(m, pos, f, ConsumableTarget("potion"),
                             <<tileNeighbourhood>>)
    IN  IF potion.exc \/ inFrontTile.kind = "None"
        THEN Fallback(inFrontTile, rc, atm, tgt)
        ELSE IF inFrontTile.character
        THEN {Outcome(ATTACK, rc, atm, tgt)}
        ELSE IF rc < ScanRounds
        THEN {Outcome(TURN_RIGHT, rc + 1, atm, tgt)}
        ELSE PlanBranches(m, pos, f, men, inFrontTile, potion, rc, atm, tgt)

\* KnowledgeBase.choice: the set of its possible outcomes.  Lines 281-282
\* are outside the try: an IndexError raised there leaves choice.
choice(m, pos, f, men, rc, atm, tgt) ==
    IF ~MapIndexOk(FrontCoords(pos, f))
    THEN {Outcome("EXC", rc, atm, tgt)}
    ELSE ChoiceBody(m, pos, f, men, MapAt(m, FrontCoords(pos, f)), rc, atm, tgt)

\* ----------------------------------------------------------------- state
VARIABLES
    mapBase,        \* KnowledgeBase.mapBase: "None" or "Map"
    map,            \* Map.map
    position,       \* Map.position
    description,    \* Map.description.facing
    menhir,         \* Map.menhir
    round_counter,  \* KnowledgeBase.round_counter
    actionsToMake,  \* KnowledgeBase.actionsToMake
    actionsTarget,  \* KnowledgeBase.actionsTarget
    lastOp,         \* the last call made on the controller
    lastAction,     \* what the last decide of this match returned
    turns,          \* number of decide calls so far
    resets,         \* number of reset calls so far
    matchTurn,      \* number of decide calls since the last reset
    prev,           \* the agent's fields and lastAction before the last call
    pathArgs,       \* arguments of the last findTarget call of SpecPath
    pathResult      \* its result

kbVars == <<round_counter, actionsToMake, actionsTarget>>
mapVars == <<arena, mapBase, map, position, description, menhir>>
histVars == <<lastOp, lastAction, turns, resets, matchTurn, prev>>
pathVars == <<pathArgs, pathResult>>
vars == <<mapVars, kbVars, histVars, pathVars>>

\* The fields a call can change, as they are before it.
Before ==
    [action |-> lastAction, menhir |-> menhir, round_counter |-> round_counter,
     actionsToMake |-> actionsToMake, actionsTarget |-> actionsTarget]

NoArgs == [target |-> CoordsTarget(<<>>), radius |-> <<>>]
NoResult == [exc |-> FALSE, actions |-> <<>>, found |-> <<>>, popped |-> <<>>]

\* No arena is loaded before the first reset.
NoArena == [size |-> <<0, 0>>, terrain |-> <<>>]

\* AresController.__init__ / KnowledgeBase.__init__
Init ==
    /\ arena = NoArena
    /\ mapBase = "None"
    /\ map = [c \in Cells |-> NoneTile]
    /\ position = <<>>
    /\ description = "None"
    /\ menhir = <<>>
    /\ round_counter = 0
    /\ actionsToMake = <<>>
    /\ actionsTarget = <<>>
    /\ lastOp = "init"
    /\ lastAction = "none"
    /\ turns = 0
    /\ resets = 0
    /\ matchTurn = 0
    /\ prev = [action |-> "none", menhir |-> <<>>, round_counter |-> 0,
               actionsToMake |-> <<>>, actionsTarget |-> <<>>]
    /\ pathArgs = NoArgs
    /\ pathResult = NoResult

\* The size of the arena the matches are played on, and the size and the
\* walls of the corridor arena.
SmallSize == <<3, 2>>
LongSize == <<7, 2>>
LongWalls == {<<1, 0>>, <<3, 1>>, <<5, 0>>}

\* The terrain of the arena the matches are played on (arena.terrain):
\* static tiles, passable but for the last cell of the second row; the
\* terrain does not describe the last cell of the first row.
Terrain ==
    [c \in ArenaCells(SmallSize) |->
        IF c = <<SmallSize[1] - 1, 0>> THEN NoneTile
        ELSE IF c = <<SmallSize[1] - 1, 1>> THEN StaticTile(FALSE)
        ELSE StaticTile(TRUE)]

\* arenas.Arena.load for the arena of the matches.
SmallArena == [size |-> SmallSize, terrain |-> Terrain]

\* The terrain of the corridor arena: two rows of static tiles, with
\* walls that leave one winding way from <<0, 0>> to the far end.
LongTerrain == [c \in ArenaCells(LongSize) |-> StaticTile(c \notin LongWalls)]

\* arenas.Arena.load for the corridor arena.
LongArena == [size |-> LongSize, terrain |-> LongTerrain]

\* Map.initMap: None everywhere, then the tiles of the arena's terrain.
initMap(a) == [c \in ArenaCells(a.size) |-> a.terrain[c]]

\* AresController.reset / KnowledgeBase.reset / Map.__init__
Reset(a) ==
    /\ resets < MaxResets
    /\ arena' = a
    /\ mapBase' = "Map"
    /\ map' = initMap(a)
    /\ position' = <<>>
    /\ description' = "None"
    /\ menhir' = <<>>
    /\ UNCHANGED kbVars
    /\ lastOp' = "reset"
    /\ lastAction' = "none"
    /\ resets' = resets + 1
    /\ matchTurn' = 0
    /\ prev' = Before
    /\ UNCHANGED <<turns, pathVars>>

\* The loop without the test that the landmark is still unset.
RECURSIVE updateLoop_Overwrite(_, _, _)
updateLoop_Overwrite(m, men, visible) ==
    IF visible = <<>> THEN [map |-> m, menhir |-> men]
    ELSE LET coord == Head(visible)[1]
             tile == Head(visible)[2]
         IN  updateLoop_Overwrite([m EXCEPT ![coord] = tile],
                                  IF tile.type = "menhir" THEN coord ELSE men,
                                  Tail(visible))

\* The loop of Map.update (lines 68-72) over the visible tiles, a
\* sequence of <<coord, tile>> in the order of the dictionary.
RECURSIVE updateLoop(_, _, _)
updateLoop(m, men, visible) ==
    IF visible = <<>> THEN [map |-> m, menhir |-> men]
    ELSE LET coord == Head(visible)[1]
             tile == Head(visible)[2]
         IN  updateLoop([m EXCEPT ![coord] = tile],
                        IF men = <<>> /\ tile.type = "menhir" THEN coord ELSE men,
                        Tail(visible))

\* The tiles an observation can show in the cell ahead of the agent.
ObsTiles ==
    { TileDescription("land", FALSE, "none", FALSE),
      TileDescription("sea", FALSE, "none", FALSE),
      TileDescription("menhir", FALSE, "none", FALSE),
      TileDescription("land", TRUE, "none", FALSE),
      TileDescription("land", FALSE, "potion", FALSE),
      TileDescription("land", FALSE, "none", TRUE) }

\* The tile the agent stands on: its character is the agent's own.
OwnTile == TileDescription("land", TRUE, "none", FALSE)

\* The engine's turn: TURN_RIGHT is clockwise, TURN_LEFT the reverse.
TurnedFacing(f, a) ==
    IF a = TURN_RIGHT
    THEN (CASE f = UP -> RIGHT [] f = RIGHT -> DOWN [] f = DOWN -> LEFT [] f = LEFT -> UP)
    ELSE IF a = TURN_LEFT
    THEN (CASE f = UP -> LEFT [] f = LEFT -> DOWN [] f = DOWN -> RIGHT [] f = RIGHT -> UP)
    ELSE f

\* The positions the next observation can report: anywhere at the start
\* of a match; afterwards where the agent was, or the cell ahead when the
\* last action was a step forward into the arena.
NextPositions ==
    IF position = <<>> THEN Cells
    ELSE {position} \cup
         (IF lastAction = STEP_FORWARD /\ isInMap(FrontCoords(position, description))
          THEN {FrontCoords(position, description)} ELSE {})

NextFacings ==
    IF description = "None" THEN Facing
    ELSE {TurnedFacing(description, lastAction)}

\* ChampionKnowledge.visible_tiles: the agent's cell, the cell ahead, and
\* the cells seen further away, a sequence of <<coord, tile>>.
VisibleTiles(p, f, front, seen) ==
    <<<<p, OwnTile>>>> \o
    (IF isInMap(FrontCoords(p, f)) THEN <<<<FrontCoords(p, f), front>>>> ELSE <<>>) \o
    seen

\* AresController.decide: Map.update, then KnowledgeBase.choice.
Decide(p, f, front, seen) ==
    /\ mapBase = "Map"
    /\ turns < MaxTurns
    /\ isInMap(FrontCoords(p, f)) \/ front = OwnTile
    /\ \A i \in DOMAIN seen : seen[i][1] \notin {p, FrontCoords(p, f)}
    /\ LET u == updateLoop(map, menhir, VisibleTiles(p, f, front, seen))
       IN  /\ map' = u.map
           /\ menhir' = u.menhir
           /\ position' = p
           /\ description' = f
           /\ \E o \in choice(u.map, p, f, u.menhir,
                               round_counter, actionsToMake, actionsTarget) :
                 /\ lastAction' = o.action
                 /\ round_counter' = o.round_counter
                 /\ actionsToMake' = o.actionsToMake
                 /\ actionsTarget' = o.actionsTarget
    /\ lastOp' = "decide"
    /\ turns' = turns + 1
    /\ matchTurn' = matchTurn + 1
    /\ prev' = Before
    /\ UNCHANGED <<arena, mapBase, resets, pathVars>>

Next ==
    \/ Reset(SmallArena)
    \/ \E p \in NextPositions, f \in NextFacings, front \in ObsTiles \cup {OwnTile} :
          Decide(p, f, front, <<>>)

Spec == Init /\ [][Next]_vars

\* ------------------------------------------------- path-search specification
\* The tiles of the maps the path search is run on.
Land == TileDescription("land", FALSE, "none", FALSE)

PathTiles ==
    { Land,
      TileDescription("sea", FALSE, "none", FALSE),
      TileDescription("land", FALSE, "potion", FALSE),
      TileDescription("land", FALSE, "none", TRUE) }

\* Map snapshots: at most MaxSpecial cells are not plain land.
PathMaps ==
    { m \in [Cells -> PathTiles] :
        Cardinality({c \in Cells : m[c] # Land}) <= MaxSpecial }

\* The goals and the radii handed to findTarget.
PathTargets == {CoordsTarget(c) : c \in Cells} \cup {ConsumableTarget("potion")}

PathRadii == {<<>>} \cup {<<r>> : r \in 0 .. MaxRadius}

\* A map snapshot with the agent on a passable cell of it.
PathInit ==
    /\ arena = SmallArena
    /\ mapBase = "Map"
    /\ map \in PathMaps
    /\ position \in {c \in Cells : tilePassable(map[c])}
    /\ description \in Facing
    /\ menhir = <<>>
    /\ round_counter = 0
    /\ actionsToMake = <<>>
    /\ actionsTarget = <<>>
    /\ lastOp = "update"
    /\ lastAction = "none"
    /\ turns = 0
    /\ resets = 1
    /\ matchTurn = 0
    /\ prev = [action |-> "none", menhir |-> <<>>, round_counter |-> 0,
               actionsToMake |-> <<>>, actionsTarget |-> <<>>]
    /\ pathArgs = NoArgs
    /\ pathResult = NoResult

\* Map.findTarget(target, radius) on the snapshot.
CallFindTarget(target, radius) ==
    /\ lastOp = "update"
    /\ pathArgs' = [target |-> target, radius |-> radius]
    /\ pathResult' = findTarget(map, position, description, target, radius)
    /\ lastOp' = "findTarget"
    /\ UNCHANGED <<mapVars, kbVars, lastAction, turns, resets, matchTurn, prev>>

PathNext == \E target \in PathTargets, radius \in PathRadii : CallFindTarget(target, radius)

SpecPath == PathInit /\ [][PathNext]_vars

\* ---------------------------------------------- corridor specification
\* Matches in the corridor arena, where a path can take more actions than
\* tileNeighbourhood.  The cell ahead shows what the terrain has there, and
\* the far end of the corridor can be in sight, with a potion or as the
\* menhir.
LongFar == <<LongSize[1] - 1, 0>>

LongSeen ==
    { <<>>,
      << <<LongFar, TileDescription("land", FALSE, "potion", FALSE)>> >>,
      << <<LongFar, TileDescription("menhir", FALSE, "none", FALSE)>> >> }

SeenAhead(p, f) ==
    IF ~isInMap(FrontCoords(p, f)) THEN OwnTile
    ELSE IF arena.terrain[FrontCoords(p, f)].passable THEN Land
    ELSE TileDescription("sea", FALSE, "none", FALSE)

LongNext ==
    \/ Reset(LongArena)
    \/ \E p \in NextPositions, f \in NextFacings, seen \in LongSeen :
          Decide(p, f, SeenAhead(p, f), seen)

SpecLong == Init /\ [][LongNext]_vars

\* --------------------------------------------- translation specification
\* The translation of coordinates into actions, applied to every position,
\* facing, step and short path of the grid, unit steps or not.
TurnPaths == UNION {[1 .. n -> Cells] : n \in 0 .. MaxPath}

TurnInit ==
    /\ arena = SmallArena
    /\ mapBase = "Map"
    /\ map = [c \in Cells |-> Land]
    /\ position \in Cells
    /\ description \in Facing
    /\ menhir = <<>>
    /\ round_counter = 0
    /\ actionsToMake = <<>>
    /\ actionsTarget = <<>>
    /\ lastOp = "update"
    /\ lastAction = "none"
    /\ turns = 0
    /\ resets = 1
    /\ matchTurn = 0
    /\ prev = [action |-> "none", menhir |-> <<>>, round_counter |-> 0,
               actionsToMake |-> <<>>, actionsTarget |-> <<>>]
    /\ pathArgs = NoArgs
    /\ pathResult = NoResult

\* Map.getTargetFace(position, step)
CallGetTargetFace(step) ==
    /\ lastOp = "update"
    /\ pathArgs' = [step |-> step]
    /\ pathResult' = [face |-> getTargetFace(position, step)]
    /\ lastOp' = "getTargetFace"
    /\ UNCHANGED <<mapVars, kbVars, lastAction, turns, resets, matchTurn, prev>>

\* Map.dirChange(position, facing, step)
CallDirChange(step) ==
    /\ lastOp = "update"
    /\ pathArgs' = [step |-> step]
    /\ pathResult' = dirChange(position, description, step)
    /\ lastOp' = "dirChange"
    /\ UNCHANGED <<mapVars, kbVars, lastAction, turns, resets, matchTurn, prev>>

\* Map.getActions(position, path)
CallGetActions(path) ==
    /\ lastOp = "update"
    /\ pathArgs' = [path |-> path]
    /\ pathResult' = getActions(description, position, path)
    /\ lastOp' = "getActions"
    /\ UNCHANGED <<mapVars, kbVars, lastAction, turns, resets, matchTurn, prev>>

TurnNext ==
    \/ \E step \in Cells : CallGetTargetFace(step)
    \/ \E step \in Cells : CallDirChange(step)
    \/ \E path \in TurnPaths : CallGetActions(path)

SpecTurn == TurnInit /\ [][TurnNext]_vars

\* ------------------------------------------------- search-mode specification
\* shortestPath in both modes, on maps with impassable and unknown cells,
\* from any cell as the root.
ModeTiles == {Land, TileDescription("sea", FALSE, "none", FALSE), NoneTile}

ModeMaps ==
    { m \in [Cells -> ModeTiles] :
        Cardinality({c \in Cells : m[c] # Land}) <= MaxSpecial }

Modes == {"", "middle"}

ModeInit ==
    /\ arena = SmallArena
    /\ mapBase = "Map"
    /\ map \in ModeMaps
    /\ position \in Cells
    /\ description \in Facing
    /\ menhir = <<>>
    /\ round_counter = 0
    /\ actionsToMake = <<>>
    /\ actionsTarget = <<>>
    /\ lastOp = "update"
    /\ lastAction = "none"
    /\ turns = 0
    /\ resets = 1
    /\ matchTurn = 0
    /\ prev = [action |-> "none", menhir |-> <<>>, round_counter |-> 0,
               actionsToMake |-> <<>>, actionsTarget |-> <<>>]
    /\ pathArgs = NoArgs
    /\ pathResult = NoResult

\* Map.shortestPath(position, target, radius, mode) on the snapshot.
CallShortestPath(target, radius, mode) ==
    /\ lastOp = "update"
    /\ pathArgs' = [target |-> target, radius |-> radius, mode |-> mode]
    /\ pathResult' = shortestPath(map, position, description, position,
                                  target, radius, mode)
    /\ lastOp' = "shortestPath"
    /\ UNCHANGED <<mapVars, kbVars, lastAction, turns, resets, matchTurn, prev>>

ModeNext ==
    \E target \in PathTargets, radius \in PathRadii, mode \in Modes :
        CallShortestPath(target, radius, mode)

SpecMode == ModeInit /\ [][ModeNext]_vars

\* ------------------------------------------------------------ the claims
Decided == lastOp = "decide"

\* The cell ahead of the agent, and the tile choice read there.
Front == FrontCoords(position, description)

FrontTile == MapAt(map, Front)

StepCount(actions) ==
    Cardinality({i \in DOMAIN actions : actions[i] = STEP_FORWARD})

TurnCount(actions) ==
    Cardinality({i \in DOMAIN actions : actions[i] \in {TURN_LEFT, TURN_RIGHT}})

\* C1: one update-then-decide call returns exactly one action of the fixed
\* action set and never lets an exception out, whatever the position, the
\* facing, the map and the queue are.
C1_DecideReturnsAction == Decided => lastAction \in Action

\* C2: whenever the map cell at position + facing holds a known occupant
\* when choice is called, the action returned is ATTACK, whatever the
\* round counter, the queued plan, the known potions and the menhir are.
C2_OccupantAheadAttacks ==
    (Decided /\ isInMap(Front) /\ map[Front].character) => lastAction = ATTACK

\* An occupant ahead of an agent that is past the scan and holds a plan.
C2_Witness ==
    /\ Decided /\ isInMap(Front) /\ map[Front].character
    /\ round_counter = ScanRounds /\ actionsToMake # <<>>
    /\ lastAction = ATTACK

\* C3: in every match, the second and later ones on the same agent
\* included, each of the first 3 decide calls returns TURN_RIGHT.  Stated
\* for the calls that neither the combat rule answers with ATTACK nor the
\* failure of C1 ends.
C3_FirstThreeTurnRight ==
    (Decided /\ matchTurn <= ScanRounds /\ lastAction \notin {ATTACK, "EXC"})
        => lastAction = TURN_RIGHT

\* C4: a reset leaves the agent as a freshly constructed agent reset with
\* the same layout: landmark unset, queue empty, target none, round
\* counter 0.
C4_ResetLikeFresh ==
    lastOp = "reset" =>
        /\ menhir = <<>> /\ position = <<>>
        /\ actionsToMake = <<>> /\ actionsTarget = <<>>
        /\ round_counter = 0

\* C5: when the queued-plan branch fires with STEP_FORWARD next in the
\* queue while the cell ahead is impassable or misty, the call empties the
\* queue and returns an action other than STEP_FORWARD.
C5_StaleStepDiscarded ==
    ( /\ Decided /\ MapIndexOk(Front)
      /\ FrontTile.kind # "None" /\ ~FrontTile.character
      /\ prev.round_counter >= ScanRounds
      /\ prev.actionsToMake # <<>>
      /\ Head(prev.actionsToMake) = STEP_FORWARD
      /\ (~tilePassable(FrontTile) \/ tileIsMist(FrontTile)) )
    => (actionsToMake = <<>> /\ lastAction # STEP_FORWARD)

\* C6: a decide that returns ATTACK leaves the queue and its target as
\* they were; the decide after it, with no occupant ahead, the scan over
\* and the next step feasible, returns the head of that queue, and the
\* queue loses exactly that element.
C6_AttackKeepsPlan ==
    /\ (Decided /\ lastAction = ATTACK)
          => (actionsToMake = prev.actionsToMake /\ actionsTarget = prev.actionsTarget)
    /\ ( /\ Decided /\ prev.action = ATTACK
         /\ MapIndexOk(Front) /\ ~FrontTile.character
         /\ prev.round_counter >= ScanRounds
         /\ prev.actionsToMake # <<>>
         /\ stepPossible(map, position, description, Head(prev.actionsToMake)) )
       => /\ lastAction = Head(prev.actionsToMake)
          /\ actionsToMake = Tail(prev.actionsToMake)
          /\ actionsTarget = prev.actionsTarget

\* The plan is resumed by the decide that follows an ATTACK.
C6_Witness ==
    /\ Decided /\ prev.action = ATTACK
    /\ MapIndexOk(Front) /\ ~FrontTile.character
    /\ prev.round_counter >= ScanRounds
    /\ prev.actionsToMake # <<>>
    /\ lastAction = Head(prev.actionsToMake)
    /\ actionsToMake = Tail(prev.actionsToMake)

\* A cell a path may step onto: passable and free of mist.
Free(m, c) == tilePassable(m[c]) /\ ~tileIsMist(m[c])

\* The cells reached from root in at most k steps over free cells.
RECURSIVE Within(_, _, _)
Within(m, root, k) ==
    IF k = 0 THEN {root}
    ELSE LET near == Within(m, root, k - 1)
         IN  near \cup {c \in Cells : Free(m, c) /\ \E d \in near : taxiDistance(c, d) = 1}

\* The cells that satisfy a goal.
Goal(m, target) ==
    IF target.kind = "Coords" THEN {target.coord}
    ELSE {c \in Cells : m[c].consumable = target.name}

NCells == Cardinality(Cells)

\* The least number of steps from root to a cell of the set S, found by
\* exhaustive search; NCells when none is reachable.
BruteDist(m, root, S) ==
    IF \E k \in 0 .. (NCells - 1) : Within(m, root, k) \cap S # {}
    THEN CHOOSE k \in 0 .. (NCells - 1) :
            /\ Within(m, root, k) \cap S # {}
            /\ \A j \in 0 .. (k - 1) : Within(m, root, j) \cap S = {}
    ELSE NCells

Searched == lastOp = "findTarget"

\* C7: when shortestPath, called without a radius, returns a non-empty
\* path, its number of STEP_FORWARD actions is the length of a shortest
\* path from the root to the nearest goal cell over the free cells.
C7_PathIsShortest ==
    (Searched /\ pathArgs.radius = <<>> /\ pathResult.actions # <<>>)
        => StepCount(pathResult.actions)
             = BruteDist(map, position, Goal(map, pathArgs.target))

\* A path that has to go around a blocked cell.
C7_Witness ==
    /\ Searched /\ pathArgs.radius = <<>> /\ pathResult.actions # <<>>
    /\ StepCount(pathResult.actions) > taxiDistance(position, pathResult.found)
    /\ StepCount(pathResult.actions)
         = BruteDist(map, position, Goal(map, pathArgs.target))

\* The turns that bring facing f to facing d.
TurnsBetween(f, d) ==
    IF f = d THEN 0 ELSE IF SameAxis(f, d) THEN 2 ELSE 1

\* The directions a shortest path from r to t on an open grid moves in:
\* along x first, then along y.
Directions(r, t) ==
    (IF t[1] > r[1] THEN <<RIGHT>> ELSE IF t[1] < r[1] THEN <<LEFT>> ELSE <<>>)
    \o (IF t[2] > r[2] THEN <<DOWN>> ELSE IF t[2] < r[2] THEN <<UP>> ELSE <<>>)

\* The least number of turns of any shortest walk from r, facing f, to t.
MinTurns(r, f, t) ==
    LET ds == Directions(r, t)
    IN  IF ds = <<>> THEN 0
        ELSE IF Len(ds) = 1 THEN TurnsBetween(f, ds[1])
        ELSE 1 + (IF TurnsBetween(f, ds[1]) <= TurnsBetween(f, ds[2])
                  THEN TurnsBetween(f, ds[1]) ELSE TurnsBetween(f, ds[2]))

\* The turns of the walk that moves along x first.
XFirstTurns(r, f, t) ==
    LET ds == Directions(r, t)
    IN  IF ds = <<>> THEN 0 ELSE TurnsBetween(f, ds[1]) + (Len(ds) - 1)

OpenGrid == \A c \in Cells : Free(map, c)

OpenSearch ==
    Searched /\ OpenGrid /\ pathArgs.radius = <<>> /\ pathArgs.target.kind = "Coords"

\* C8 as stated: on a grid of free cells the path has taxiDistance(root,
\* target) STEP_FORWARD actions and at most 2 turns, the fewest possible
\* from the initial facing.
C8_AtMostTwoTurns ==
    OpenSearch =>
        /\ StepCount(pathResult.actions) = taxiDistance(position, pathArgs.target.coord)
        /\ TurnCount(pathResult.actions) <= 2
        /\ TurnCount(pathResult.actions)
             = MinTurns(position, description, pathArgs.target.coord)

\* C8 amended: on a grid of free cells the path has taxiDistance(root,
\* target) STEP_FORWARD actions and at most 3 turns: those that face the
\* first step of a walk along x first (at most 2) and one more where the
\* walk bends.
C8_AtMostThreeTurns ==
    OpenSearch =>
        /\ pathResult.found = pathArgs.target.coord
        /\ StepCount(pathResult.actions) = taxiDistance(position, pathArgs.target.coord)
        /\ TurnCount(pathResult.actions) <= 3
        /\ TurnCount(pathResult.actions)
             = XFirstTurns(position, description, pathArgs.target.coord)
        /\ Len(pathResult.actions)
             = StepCount(pathResult.actions) + TurnCount(pathResult.actions)

\* A path on an open grid that takes 3 turns.
C8_Witness ==
    /\ OpenSearch
    /\ TurnCount(pathResult.actions) = 3
    /\ StepCount(pathResult.actions) = taxiDistance(position, pathArgs.target.coord)

\* The number of steps from root to c over free cells.
Depth(m, root, c) == BruteDist(m, root, {c})

Examined == {pathResult.popped[i] : i \in DOMAIN pathResult.popped}

\* C9: shortestPath with radius r never examines a cell deeper than r
\* layers from the root, and when it finds no goal cell within the budget
\* it returns the empty sequence and the root coordinate.
C9_RadiusBoundsSearch ==
    (Searched /\ pathArgs.radius # <<>>) =>
        /\ \A c \in Examined : Depth(map, position, c) <= pathArgs.radius[1]
        /\ (Examined \cap Goal(map, pathArgs.target) = {})
              => (pathResult.actions = <<>> /\ pathResult.found = position)

\* The budget ends a search whose goal is reachable further away.
C9_Witness ==
    /\ Searched /\ pathArgs.radius # <<>>
    /\ Len(pathResult.popped) = pathArgs.radius[1] + 1
    /\ Examined \cap Goal(map, pathArgs.target) = {}
    /\ BruteDist(map, position, Goal(map, pathArgs.target)) < NCells
    /\ pathResult.actions = <<>> /\ pathResult.found = position

\* C10: within a match the menhir coordinate, once set by Map.update, is
\* changed by no later decide, also when a menhir tile is seen elsewhere.
C10_MenhirWriteOnce ==
    (Decided /\ prev.menhir # <<>>) => menhir = prev.menhir

\* A second menhir tile is seen ahead while the first stays the landmark.
C10_Witness ==
    /\ Decided /\ prev.menhir # <<>> /\ menhir = prev.menhir
    /\ isInMap(Front) /\ Front # menhir
    /\ map[Front].type = "menhir"

\* C11: the radius is a cutoff in layers: whenever a goal cell is within
\* radius steps of the root over free cells, the search returns a path to
\* a nearest goal cell and not the empty result of a miss.
C11_RadiusCountsLayers ==
    ( /\ Searched /\ pathArgs.radius # <<>>
      /\ BruteDist(map, position, Goal(map, pathArgs.target)) <= pathArgs.radius[1] )
    => /\ pathResult.found \in Goal(map, pathArgs.target)
       /\ StepCount(pathResult.actions)
            = BruteDist(map, position, Goal(map, pathArgs.target))

\* The potion search of the last decide (lines 284-287), on the map as
\* the decide updated it.
PotionPath ==
    findTarget(map, position, description, ConsumableTarget("potion"),
               <<tileNeighbourhood>>)

\* The last decide reached the branches below the queue with an empty
\* queue: scan over, nobody ahead, no exception.
PlanFree ==
    /\ Decided /\ lastAction # "EXC"
    /\ prev.round_counter >= ScanRounds
    /\ prev.actionsToMake = <<>>
    /\ FrontTile.kind # "None" /\ ~FrontTile.character

\* The last decide adopted the path to the potion as its plan.
PotionAdopted ==
    /\ PlanFree
    /\ PotionPath.actions # <<>>
    /\ actionsTarget = PotionPath.found
    /\ <<lastAction>> \o actionsToMake = PotionPath.actions

\* C12: the path to a potion is adopted as the plan only if the number of
\* its actions is within tileNeighbourhood.
C12_LongPotionPathNotAdopted ==
    PotionAdopted => Len(PotionPath.actions) <= tileNeighbourhood

\* The landmark branch of the last decide was taken: an empty queue, no
\* potion path, the menhir known.
LandmarkTaken == PlanFree /\ PotionPath.actions = <<>> /\ menhir # <<>>

\* The path search of the landmark branch (line 300).
MenhirPath == findTarget(map, position, description, CoordsTarget(menhir), <<>>)

\* C13: in the landmark branch a path of more than tileNeighbourhood actions
\* becomes the plan, its first action returned and the rest queued;
\* otherwise the queue is empty, the target none, and the action returned
\* is the local fallback's.
C13_LandmarkBranch ==
    LandmarkTaken =>
        IF Len(MenhirPath.actions) > tileNeighbourhood
        THEN /\ lastAction = Head(MenhirPath.actions)
             /\ actionsToMake = Tail(MenhirPath.actions)
             /\ actionsTarget = MenhirPath.found
        ELSE /\ actionsToMake = <<>>
             /\ actionsTarget = <<>>
             /\ lastAction \in checkPossibleAction(FrontTile)

\* A decide that adopted a path to the menhir of more than
\* tileNeighbourhood actions.
C13_Witness ==
    /\ LandmarkTaken
    /\ Len(MenhirPath.actions) > tileNeighbourhood
    /\ Len(actionsToMake) >= tileNeighbourhood
    /\ actionsTarget = menhir

\* A decide of the landmark branch with the menhir near: nothing queued.
C13_WitnessNear ==
    /\ LandmarkTaken
    /\ MenhirPath.actions # <<>>
    /\ Len(MenhirPath.actions) <= tileNeighbourhood
    /\ actionsToMake = <<>>

\* The facing whose unit vector leads from one cell to the next; "None"
\* when the two cells are not one step apart.
FacingTo(from, to) ==
    IF \E g \in Facing : CoordsAdd(from, FacingValue(g)) = to
    THEN CHOOSE g \in Facing : CoordsAdd(from, FacingValue(g)) = to
    ELSE "None"

\* The turns the table prescribes from facing f to facing g.
TableTurns(f, g) ==
    IF f = g THEN <<>>
    ELSE IF CoordsAdd(FacingValue(f), FacingValue(g)) = <<0, 0>>
    THEN <<TURN_RIGHT, TURN_RIGHT>>
    ELSE IF TurnedFacing(f, TURN_RIGHT) = g THEN <<TURN_RIGHT>>
    ELSE <<TURN_LEFT>>

\* A path of unit steps from a cell.
RECURSIVE UnitPath(_, _)
UnitPath(from, path) ==
    path = <<>> \/ (FacingTo(from, Head(path)) # "None" /\ UnitPath(Head(path), Tail(path)))

\* The actions of a unit path by the table: the turns to the required
\* facing, one STEP_FORWARD, and on with the required facing.
RECURSIVE TableActions(_, _, _)
TableActions(f, from, path) ==
    IF path = <<>> THEN <<>>
    ELSE TableTurns(f, FacingTo(from, Head(path))) \o <<STEP_FORWARD>>
         \o TableActions(FacingTo(from, Head(path)), Head(path), Tail(path))

\* C14: dirChange emits, for every pair of current and required facing,
\* no turn when they are equal, two TURN_RIGHT when opposite, one
\* TURN_RIGHT for a clockwise pair and one TURN_LEFT otherwise; getActions
\* appends one STEP_FORWARD per step and carries the required facing over.
C14_TurnTable ==
    /\ (lastOp = "dirChange" /\ FacingTo(position, pathArgs.step) # "None")
         => /\ ~pathResult.exc
            /\ pathResult.face = FacingTo(position, pathArgs.step)
            /\ pathResult.res = TableTurns(description, FacingTo(position, pathArgs.step))
    /\ (lastOp = "getActions" /\ UnitPath(position, pathArgs.path))
         => /\ ~pathResult.exc
            /\ pathResult.actions = TableActions(description, position, pathArgs.path)
            /\ StepCount(pathResult.actions) = Len(pathArgs.path)

\* A two-step path that starts behind the agent and then bends.
C14_Witness ==
    /\ lastOp = "getActions" /\ Len(pathArgs.path) = 2
    /\ UnitPath(position, pathArgs.path)
    /\ SubSeq(pathResult.actions, 1, 3) = <<TURN_RIGHT, TURN_RIGHT, STEP_FORWARD>>
    /\ Len(pathResult.actions) = 5
    /\ pathResult.actions[4] = TURN_LEFT

\* C15: getTargetFace rejects with an error every difference vector that is
\* not one of the four unit directions: the zero vector, a diagonal, an
\* axis-aligned vector of length two or more; it maps none to a facing.
C15_NonUnitRejected ==
    (lastOp = "getTargetFace" /\ FacingTo(position, pathArgs.step) = "None")
        => pathResult.face = "EXC"

\* What findTarget returns on the same map for a goal that no cell
\* satisfies (a coordinate outside the grid): the result of a miss.
Miss == findTarget(map, position, description, CoordsTarget(MAPSIZE), <<>>)

\* C16: the result tells 'no path found' from 'the goal is already at the
\* root': a search whose goal the root satisfies does not return the pair
\* of actions and coordinate that a miss returns.
C16_MissToldFromGoalAtRoot ==
    (Searched /\ position \in Goal(map, pathArgs.target))
        => <<pathResult.actions, pathResult.found>> # <<Miss.actions, Miss.found>>

\* Nobody stands in the cell ahead of the agent, as far as the map knows.
NoOccupantAhead ==
    isInMap(Front) => (map[Front].kind = "None" \/ ~map[Front].character)

\* The cell ahead can be stepped on: in the arena, passable, free of mist.
AheadFeasible ==
    /\ isInMap(Front)
    /\ map[Front].kind # "None"
    /\ tilePassable(map[Front]) /\ ~tileIsMist(map[Front])

\* The last decide found a queued plan whose next action can be carried
\* out, with nobody ahead.
PlanContinues ==
    /\ Decided
    /\ prev.actionsToMake # <<>>
    /\ NoOccupantAhead
    /\ Head(prev.actionsToMake) = STEP_FORWARD => AheadFeasible

\* C17: while nobody appears ahead and no queued STEP_FORWARD is
\* infeasible, every decide returns the head of the queued plan and
\* shortens the queue by that one action, so a plan of n actions is
\* returned in its order, one action per call, and is empty after n.
C17_PlanInOrder ==
    PlanContinues =>
        /\ lastAction = Head(prev.actionsToMake)
        /\ actionsToMake = Tail(prev.actionsToMake)

\* C18: shortestPath ends for every map, root, goal, radius and mode: no
\* cell is taken from the queue twice, so the loop ends after at most as
\* many dequeues as the grid has cells, also when the goal is unreachable
\* and when the mode lets impassable and unknown neighbours through.
C18_SearchTerminates ==
    lastOp = "shortestPath" =>
        /\ Len(pathResult.popped) <= NCells
        /\ \A i, j \in DOMAIN pathResult.popped :
              pathResult.popped[i] = pathResult.popped[j] => i = j

\* A search in mode 'middle' for a goal no cell satisfies, on a map with
\* an impassable and an unknown cell: it takes every known cell from the
\* queue, the impassable one included, and ends with a miss.
C18_Witness ==
    /\ lastOp = "shortestPath"
    /\ pathArgs.mode # "" /\ pathArgs.radius = <<>>
    /\ pathArgs.target = ConsumableTarget("potion")
    /\ ~pathResult.exc /\ pathResult.actions = <<>>
    /\ \E c \in Cells : map[c].kind = "None"
    /\ \E i \in DOMAIN pathResult.popped : ~tilePassable(map[pathResult.popped[i]])
    /\ Len(pathResult.popped) = Cardinality({c \in Cells : map[c].kind # "None"})

\* C19: whatever branch of choice the decide took, it does not return
\* STEP_FORWARD while the map holds an impassable tile for the cell
\* directly ahead of the agent.
C19_NoStepIntoImpassable ==
    (Decided /\ isInMap(Front) /\ ~tilePassable(map[Front]))
        => lastAction # STEP_FORWARD

\* A queued STEP_FORWARD met an impassable cell ahead: the plan is
\* dropped and the decide turns.
C19_Witness ==
    /\ Decided /\ isInMap(Front) /\ ~tilePassable(map[Front])
    /\ prev.actionsToMake # <<>>
    /\ Head(prev.actionsToMake) = STEP_FORWARD
    /\ lastAction = TURN_RIGHT
    /\ actionsToMake = <<>>

\* The engine carrying out a sequence of actions from a cell and a
\* facing: a turn rotates the facing, STEP_FORWARD adds its unit vector.
\* The result is the cell reached and the cells stepped on, in order.
RECURSIVE Walk(_, _, _)
Walk(pos, f, actions) ==
    IF actions = <<>> THEN [pos |-> pos, stepped |-> <<>>]
    ELSE IF Head(actions) = STEP_FORWARD
    THEN LET rest == Walk(CoordsAdd(pos, FacingValue(f)), f, Tail(actions))
         IN  [pos |-> rest.pos,
              stepped |-> <<CoordsAdd(pos, FacingValue(f))>> \o rest.stepped]
    ELSE Walk(pos, TurnedFacing(f, Head(actions)), Tail(actions))

\* C20: carried out by the engine from the root and the agent's facing,
\* the actions of a non-empty result of the default-mode search end on the
\* returned target cell, and every cell stepped on is in the grid,
\* passable and free of mist.
C20_ActionsReachTarget ==
    (Searched /\ ~pathResult.exc /\ pathResult.actions # <<>>)
        => LET w == Walk(position, description, pathResult.actions)
           IN  /\ w.pos = pathResult.found
               /\ \A i \in DOMAIN w.stepped :
                     w.stepped[i] \in Cells /\ Free(map, w.stepped[i])

\* A path of three steps or more with two turns or more that goes round
\* a cell that is not free.
C20_Witness ==
    /\ Searched /\ ~pathResult.exc
    /\ StepCount(pathResult.actions) >= 3
    /\ TurnCount(pathResult.actions) >= 2
    /\ \E c \in Cells : ~Free(map, c) /\ taxiDistance(c, position) = 1
    /\ Walk(position, description, pathResult.actions).pos = pathResult.found

====
